---------------------------- MODULE Spec2Model ----------------------------
(***************************************************************************)
(* Model of the haproxy operator: the charm's event handlers               *)
(* (src/src/charm.py, class HaproxyCharm) and the instance manager's       *)
(* lifecycle methods (src/src/haproxy_instance_manager.py, class           *)
(* HaproxyInstanceManager).                                                *)
(*                                                                         *)
(* A unit is driven by exactly one of the two classes: charm.py never      *)
(* constructs a HaproxyInstanceManager, and both act on the same service   *)
(* ("haproxy") and the same two files.  `driver` says which one drives     *)
(* the unit in a behaviour.                                                *)
(*                                                                         *)
(* One action is one whole handler (or method) invocation.  A handler is   *)
(* a function from the world at entry to the world at exit; the world      *)
(* record threads the exception state (`raised`) through the handler's     *)
(* statements so that a statement after a raise has no effect.             *)
(***************************************************************************)
EXTENDS Integers, Sequences, FiniteSets, TLC

(***************************************************************************)
(* Bounds of the model.                                                    *)
(***************************************************************************)
\* how many deferred keepalived_available events the framework may hold
MaxDeferred == 1
\* how many backend pools the topology feed may declare
MaxPools == 2

(***************************************************************************)
(* Values.                                                                 *)
(***************************************************************************)
None == "None"
NoError == "NoError"
CalledProcessError == "CalledProcessError"
IndexError == "IndexError"
AttributeError == "AttributeError"
KeyError == "KeyError"

\* ops.model.ActiveStatus() / BlockedStatus(message); a fresh unit has none set
NoStatus == [name |-> "unknown", message |-> ""]
ActiveStatus == [name |-> "active", message |-> ""]
BlockedStatus(msg) == [name |-> "blocked", message |-> msg]

\* self.app.name, and config['virtual-router-id'] (a charm config option)
AppName == "haproxy"
VirtualRouterId == "virtual-router-id"

\* seeded fault: two rows of the table exchanged
BALANCING_ALGORITHMS_swapped ==
    [ROUND_ROBIN |-> "roundrobin",
     LEAST_CONNECTIONS |-> "source",
     SOURCE_IP |-> "leastconn"]

\* tcp_lb.BalancingAlgorithm members the adapter's table knows
BALANCING_ALGORITHMS ==
    [ROUND_ROBIN |-> "roundrobin",
     LEAST_CONNECTIONS |-> "leastconn",
     SOURCE_IP |-> "source"]

(***************************************************************************)
(* The desired-topology feed: backend pools, each a listener and members.  *)
(* Listener ports are unique across the pools of one feed.                 *)
(***************************************************************************)
\* an optional value of a Backend: absent (Python's None), or present
Absent == <<>>
Some(v) == <<v>>

Backend(name, port, monitor_port, weight) ==
    [name |-> name, address |-> "10.1.0.1", port |-> port,
     monitor_port |-> monitor_port, weight |-> weight]

PoolUniverse ==
    <<[listener |-> [name |-> "web", port |-> 80,
                     balancing_algorithm |-> "ROUND_ROBIN"],
       members |-> <<Backend("web0", 8080, Absent, Absent),
                     Backend("web1", 8081, Some(8443), Some(5))>>],
      [listener |-> [name |-> "db", port |-> 5432,
                     balancing_algorithm |-> "SOURCE_IP"],
       members |-> <<>>],
      [listener |-> [name |-> "mq", port |-> 5672,
                     balancing_algorithm |-> "LEAST_CONNECTIONS"],
       members |-> <<Backend("mq0", 5672, Absent, Some(1))>>]>>

\* the feeds of the model: the first k pools of the universe
PoolFeeds == {SubSeq(PoolUniverse, 1, k) : k \in 0..MaxPools}

\* the binding's network interfaces: none resolvable, or one
InterfaceFeeds == {<<>>, <<"eth0">>}
\* config.get('virtual-ip'): unset, or set by the administrator
VirtualIps == {None, "192.0.2.10"}
\* HaproxyInstanceManager(..., bind_addresses=None)
NoBindAddresses == [is_none |-> TRUE, addresses |-> <<>>]
BindAddresses(addresses) == [is_none |-> FALSE, addresses |-> addresses]
BindAddressOptions ==
    {NoBindAddresses, BindAddresses(<<>>),
     BindAddresses(<<"10.0.0.1", "10.0.0.2">>)}

VARIABLES
    driver,         \* "charm" or "manager": which class drives the unit
    started,        \* HaproxyCharm.state.started
    is_started,     \* HaproxyInstanceManager._stored.is_started
    status,         \* the unit status last published
    conf,           \* content of haproxy_conf_file
    env_file,       \* content of HAPROXY_ENV_FILE
    running,        \* whether the haproxy service runs
    loaded,         \* the configuration the running service loaded
    deferred,       \* deferred keepalived_available events held by the framework
    is_joined,      \* self.keepalived.is_joined
    virtual_ip,     \* self.model.config.get('virtual-ip')
    interfaces,     \* get_binding('website').network.interfaces (their names)
    pools,          \* the backend pools currently declared
    bind_addresses, \* the manager's bind_addresses
    ever_started,   \* history: a service start has completed at least once
    last            \* history: the most recent handler invocation

vars == <<driver, started, is_started, status, conf, env_file, running, loaded,
          deferred, is_joined, virtual_ip, interfaces, pools,
          bind_addresses, ever_started, last>>


(***************************************************************************)
(* The world a handler runs in.                                            *)
(***************************************************************************)
\* a subprocess.check_call fails at the fail_at-th call of a handler (0: never);
\* no handler makes more than two calls.  w.failed: a check_call has failed
FailPoints == {0, 1, 2}

\* the world at the entry of a handler whose fail-th check_call fails
Entry(fail) ==
    [started |-> started, is_started |-> is_started, status |-> status,
     conf |-> conf, env_file |-> env_file, running |-> running,
     loaded |-> loaded, ever_started |-> ever_started,
     is_joined |-> is_joined, virtual_ip |-> virtual_ip,
     interfaces |-> interfaces, pools |-> pools,
     bind_addresses |-> bind_addresses,
     vrrp |-> <<>>, trace |-> <<>>, raised |-> NoError, defer |-> FALSE,
     failed |-> FALSE, fail_at |-> fail]

\* the effects recorded in a handler's trace
AptUpdate == "apt update"
AptInstall == "apt install -yq haproxy"
AptPurge == "apt purge -yq haproxy"
SystemctlStart == "systemctl start haproxy"
SystemctlStop == "systemctl stop haproxy"
SystemctlRestart == "systemctl restart haproxy"
WriteEnvFile == "write HAPROXY_ENV_FILE"
WriteConfFile == "write haproxy_conf_file"
SetStatus == "unit.status ="
Defer == "event.defer()"
ConfigureVrrp == "configure_vrrp_instances"

Count(trace, x) == Cardinality({i \in 1..Len(trace) : trace[i] = x})
Has(trace, x) == \E i \in 1..Len(trace) : trace[i] = x
\* x occurs in trace, and before any occurrence of y
Before(trace, x, y) ==
    \E i \in 1..Len(trace) :
        /\ trace[i] = x
        /\ \A j \in 1..Len(trace) : trace[j] = y => i < j

\* what a successful command does to the service
run_command(w, cmd) ==
    CASE cmd = SystemctlStart ->
           [w EXCEPT !.running = TRUE,
                     !.loaded = IF w.running THEN @ ELSE w.conf]
      [] cmd = SystemctlStop -> [w EXCEPT !.running = FALSE]
      [] cmd = SystemctlRestart -> [w EXCEPT !.running = TRUE, !.loaded = w.conf]
      [] cmd = AptPurge -> [w EXCEPT !.running = FALSE]
      [] OTHER -> w

\* subprocess.check_call(cmd): runs cmd, raises CalledProcessError if it fails
check_call(w, cmd) ==
    IF w.raised # NoError THEN w
    ELSE LET t == [w EXCEPT !.trace = Append(@, cmd),
                            !.fail_at = IF @ > 0 THEN @ - 1 ELSE 0]
         IN  IF w.fail_at = 1
             THEN [t EXCEPT !.raised = CalledProcessError, !.failed = TRUE]
             ELSE run_command(t, cmd)

\* jinja2: template.render(ctxt), deterministic in the template and the context
render(template, ctxt) == [template |-> template, ctxt |-> ctxt]

haproxy_conf_file == "/etc/haproxy/juju-haproxy.cfg"

\* a file's text: what was rendered into it; '' is the empty text
EmptyText == [template |-> "", ctxt |-> [empty |-> TRUE]]
\* before the first install neither file holds anything of the charm's
NoFile == [template |-> "no file", ctxt |-> [empty |-> TRUE]]

set_status(w, s) ==
    IF w.raised # NoError THEN w
    ELSE [w EXCEPT !.status = s, !.trace = Append(@, SetStatus)]

write_conf(w, content) ==
    IF w.raised # NoError THEN w
    ELSE [w EXCEPT !.conf = content, !.trace = Append(@, WriteConfFile)]

write_env(w, content) ==
    IF w.raised # NoError THEN w
    ELSE [w EXCEPT !.env_file = content, !.trace = Append(@, WriteEnvFile)]

raise(w, error) ==
    IF w.raised # NoError THEN w ELSE [w EXCEPT !.raised = error]

(***************************************************************************)
(* The interface objects the charm reads (their code is not in src/).      *)
(***************************************************************************)
\* tcp_backends.frontend_ports: the listener port of every pool, in order
frontend_ports(w) == [i \in 1..Len(w.pools) |-> w.pools[i].listener.port]

\* tcp_backends.listen_proxies: the proxies to listen for, one per pool
listen_proxies(w) == w.pools

VRRPScript(name, script) == [name |-> name, script |-> script]

VRRPInstance(name, router_id, virtual_ips, interface, track_ifs, scripts) ==
    [name |-> name, virtual_router_id |-> router_id,
     virtual_ip_addresses |-> virtual_ips, network_interface |-> interface,
     track_interfaces |-> track_ifs, track_scripts |-> scripts]

\* keepalived.configure_vrrp_instances(instances): publishes them to the peer;
\* w.vrrp is what the handler has published
configure_vrrp_instances(w, instances) ==
    IF w.raised # NoError THEN w
    ELSE [w EXCEPT !.vrrp = instances, !.trace = Append(@, ConfigureVrrp)]


(***************************************************************************)
(* HaproxyCharm (src/src/charm.py).                                        *)
(***************************************************************************)
\* self.state.started = value
set_started(w, value) ==
    IF w.raised # NoError THEN w
    ELSE [w EXCEPT !.started = value,
                   !.ever_started = w.ever_started \/ value]

\* seeded fault: a repeated install forgets that the service was started
on_install_clears_started(w) ==
    LET installed == check_call(check_call(w, AptUpdate), AptInstall)
        rendered_content ==
            render("haproxy.env.j2", [haproxy_app_config |-> haproxy_conf_file])
    IN  set_started(write_conf(write_env(installed, rendered_content),
                               EmptyText), FALSE)

on_install(w) ==
    LET updated == check_call(w, AptUpdate)
        installed == check_call(updated, AptInstall)
        rendered_content ==
            render("haproxy.env.j2", [haproxy_app_config |-> haproxy_conf_file])
    IN  write_conf(write_env(installed, rendered_content), EmptyText)

\* seeded fault: starts the service whether or not the unit is started
on_start_unguarded(w) ==
    set_status(set_started(check_call(w, SystemctlStart), TRUE), ActiveStatus)

\* seeded fault: sets the started flag before the service is started
on_start_flag_first(w) ==
    LET s == IF ~w.started
             THEN check_call(set_started(w, TRUE), SystemctlStart)
             ELSE w
    IN  set_status(s, ActiveStatus)

on_start(w) ==
    LET s == IF ~w.started
             THEN set_started(check_call(w, SystemctlStart), TRUE)
             ELSE w
    IN  set_status(s, ActiveStatus)

\* seeded fault: stop starts a service that is not started
on_stop_toggles(w) ==
    IF w.started
    THEN set_started(check_call(w, SystemctlStop), FALSE)
    ELSE set_started(check_call(w, SystemctlStart), TRUE)

on_stop(w) ==
    IF w.started
    THEN set_started(check_call(w, SystemctlStop), FALSE)
    ELSE w

reconfigure_haproxy(w) ==
    LET rendered_content ==
            render("haproxy.conf.j2", [listen_proxies |-> listen_proxies(w)])
    IN  check_call(write_conf(w, rendered_content), SystemctlRestart)

\* reconfigure_keepalived past its check of the peer relation
build_and_publish_vrrp(w) ==
    LET ports == frontend_ports(w)
        vrrp_scripts ==
            [i \in 1..Len(ports) |->
                VRRPScript(<<"haproxy_port_", ports[i], "_check">>,
                           <<"</dev/tcp/127.0.0.1/", ports[i]>>)]
    IN  IF w.interfaces = <<>> THEN raise(w, IndexError)
        ELSE
        LET vip_interface == w.interfaces[1]
        IN  IF w.virtual_ip = None
            THEN set_status(w, BlockedStatus(
                     "Waiting for an administrator to set virtual-ip."))
            ELSE set_status(
                     configure_vrrp_instances(w,
                         <<VRRPInstance(AppName, VirtualRouterId,
                                        <<w.virtual_ip>>, vip_interface,
                                        <<vip_interface>>, vrrp_scripts)>>),
                     ActiveStatus)

\* seeded fault: publishes whether or not a peer has joined
reconfigure_keepalived_unchecked(w) ==
    IF w.raised # NoError THEN w ELSE build_and_publish_vrrp(w)

reconfigure_keepalived(w) ==
    IF w.raised # NoError \/ ~w.is_joined THEN w
    ELSE build_and_publish_vrrp(w)

\* seeded fault: reconfigures the HA companion before the load-balancer
on_config_changed_ha_first(w) ==
    check_call(reconfigure_haproxy(reconfigure_keepalived(w)), SystemctlRestart)

on_config_changed(w) ==
    check_call(reconfigure_keepalived(reconfigure_haproxy(w)), SystemctlRestart)

on_backends_changed(w) ==
    reconfigure_keepalived(reconfigure_haproxy(w))

\* event.defer()
defer(w) ==
    IF w.raised # NoError THEN w
    ELSE [w EXCEPT !.defer = TRUE, !.trace = Append(@, Defer)]

on_keepalived_available(w) ==
    LET d == IF ~w.started THEN defer(w) ELSE w
    IN  reconfigure_keepalived(d)


(***************************************************************************)
(* TCPLoadBalancerPoolAdapter (src/src/haproxy_instance_manager.py).       *)
(***************************************************************************)
BindSocketSpec(address, port_range) ==
    [address |-> address, port_range |-> port_range]

\* BindSocketSpec.__str__: f'{address}:{port_range}'
BindSocketSpec_str(spec) == <<spec.address, ":", spec.port_range>>

\* seeded fault: the health check always goes to the serving port
ServerSpec_ignores_monitor_port(name, address, port, check_port, weight) ==
    [name |-> name, address |-> address, port |-> port, weight |-> weight,
     check_port |-> port]

\* ServerSpec(...), with its check_port property
ServerSpec(name, address, port, check_port, weight) ==
    [name |-> name, address |-> address, port |-> port, weight |-> weight,
     check_port |-> IF check_port # Absent THEN check_port[1] ELSE port]

\* seeded fault: the bind specs come out in the reverse order of the addresses
_bind_socket_specs_reversed(addresses, port) ==
    IF addresses.is_none
    THEN <<BindSocketSpec("", port)>>
    ELSE [i \in 1..Len(addresses.addresses) |->
              BindSocketSpec(
                  addresses.addresses[Len(addresses.addresses) + 1 - i], port)]

_bind_socket_specs(addresses, port) ==
    IF addresses.is_none
    THEN <<BindSocketSpec("", port)>>
    ELSE [i \in 1..Len(addresses.addresses) |->
              BindSocketSpec(addresses.addresses[i], port)]

_server_specs(backends) ==
    [i \in 1..Len(backends) |->
        ServerSpec(backends[i].name, backends[i].address, backends[i].port,
                   backends[i].monitor_port, backends[i].weight)]

\* BALANCING_ALGORITHMS[algorithm] raises KeyError for a value not in the table
balance_raises(pool) ==
    pool.listener.balancing_algorithm \notin DOMAIN BALANCING_ALGORITHMS

_process_pool(pool, addresses) ==
    LET socket_specs == _bind_socket_specs(addresses, pool.listener.port)
    IN  [name |-> pool.listener.name,
         socket_specs_str |->
             [i \in 1..Len(socket_specs) |-> BindSocketSpec_str(socket_specs[i])],
         mode |-> "tcp",
         balance |-> BALANCING_ALGORITHMS[pool.listener.balancing_algorithm],
         servers |-> _server_specs(pool.members)]

listen_sections(backend_pools, addresses) ==
    [i \in 1..Len(backend_pools) |-> _process_pool(backend_pools[i], addresses)]

listen_sections_raises(backend_pools) ==
    \E i \in 1..Len(backend_pools) : balance_raises(backend_pools[i])

(***************************************************************************)
(* HaproxyInstanceManager (src/src/haproxy_instance_manager.py).           *)
(***************************************************************************)
\* self._stored.is_started = value
set_is_started(w, value) ==
    IF w.raised # NoError THEN w
    ELSE [w EXCEPT !.is_started = value,
                   !.ever_started = w.ever_started \/ value]

_install_haproxy(w) == check_call(check_call(w, AptUpdate), AptInstall)

_update_haproxy_env_file(w) ==
    LET rendered_content ==
            render("haproxy.env.j2", [haproxy_app_config |-> haproxy_conf_file])
    IN  write_conf(write_env(w, rendered_content), EmptyText)

install(w) == _update_haproxy_env_file(_install_haproxy(w))

_run_start(w) == check_call(w, SystemctlStart)

start(w) ==
    IF ~w.is_started THEN set_is_started(_run_start(w), TRUE) ELSE w

\* line 74 assigns through self.state, an attribute the manager does not
\* have (its stored state is self._stored): the assignment raises
stop(w) ==
    LET s == IF ~w.is_started THEN check_call(w, SystemctlStop) ELSE w
    IN  raise(s, AttributeError)

uninstall(w) == check_call(w, AptPurge)

_run_restart(w) == check_call(w, SystemctlRestart)

_do_reconfigure(w) ==
    IF listen_sections_raises(w.pools) THEN raise(w, KeyError)
    ELSE write_conf(w, render("haproxy.conf.j2",
             [listen_sections |-> listen_sections(w.pools, w.bind_addresses)]))

reconfigure(w) == _run_restart(_do_reconfigure(w))


(***************************************************************************)
(* The state machine.                                                      *)
(***************************************************************************)
NoInvocation ==
    [op |-> "none", pre |-> FALSE, trace |-> <<>>, raised |-> NoError,
     failed |-> FALSE, published |-> <<>>, redelivered |-> FALSE,
     pub_before |-> FALSE]

Init ==
    /\ driver \in {"charm", "manager"}
    /\ started = FALSE
    /\ is_started = FALSE
    /\ status = NoStatus
    /\ conf = NoFile
    /\ env_file = NoFile
    /\ running = FALSE
    /\ loaded = NoFile
    /\ deferred = <<>>
    /\ is_joined = FALSE
    /\ virtual_ip = None
    /\ interfaces = <<"eth0">>
    /\ pools = <<>>
    /\ bind_addresses \in
          IF driver = "charm" THEN {NoBindAddresses} ELSE BindAddressOptions
    /\ ever_started = FALSE
    /\ last = NoInvocation

\* the state a handler leaves, w being the world at its exit
Commit(op, w, redelivered, pub_before) ==
    /\ started' = w.started
    /\ is_started' = w.is_started
    /\ status' = w.status
    /\ conf' = w.conf
    /\ env_file' = w.env_file
    /\ running' = w.running
    /\ loaded' = w.loaded
    /\ is_joined' = w.is_joined
    /\ virtual_ip' = w.virtual_ip
    /\ interfaces' = w.interfaces
    /\ pools' = w.pools
    /\ ever_started' = w.ever_started
    /\ last' = [op |-> op,
                pre |-> IF driver = "charm" THEN started ELSE is_started,
                trace |-> w.trace,
                raised |-> w.raised,
                failed |-> w.failed,
                published |-> w.vrrp,
                redelivered |-> redelivered,
                pub_before |-> pub_before]
    /\ UNCHANGED <<driver, bind_addresses>>

(***************************************************************************)
(* The environment: what the handlers read changes between invocations.    *)
(* `last` describes the most recent invocation in the environment as it    *)
(* is now, so a change of the environment clears it.                       *)
(***************************************************************************)
\* the peer relation with keepalived is established or goes away
PeerRelationChanges ==
    /\ driver = "charm"
    /\ is_joined' = ~is_joined
    /\ last' = NoInvocation
    /\ UNCHANGED <<driver, started, is_started, status, conf, env_file,
                   running, loaded, deferred, virtual_ip, interfaces,
                   pools, bind_addresses, ever_started>>

\* the administrator sets or unsets the virtual-ip option
VirtualIpChanges(v) ==
    /\ driver = "charm"
    /\ v # virtual_ip
    /\ virtual_ip' = v
    /\ last' = NoInvocation
    /\ UNCHANGED <<driver, started, is_started, status, conf, env_file,
                   running, loaded, deferred, is_joined, interfaces,
                   pools, bind_addresses, ever_started>>

\* the interfaces of the 'website' binding change
InterfacesChange(i) ==
    /\ driver = "charm"
    /\ i # interfaces
    /\ interfaces' = i
    /\ last' = NoInvocation
    /\ UNCHANGED <<driver, started, is_started, status, conf, env_file,
                   running, loaded, deferred, is_joined, virtual_ip,
                   pools, bind_addresses, ever_started>>

\* the topology feed declares other pools
PoolsChange(p) ==
    /\ p # pools
    /\ pools' = p
    /\ last' = NoInvocation
    /\ UNCHANGED <<driver, started, is_started, status, conf, env_file,
                   running, loaded, deferred, is_joined, virtual_ip,
                   interfaces, bind_addresses, ever_started>>

(***************************************************************************)
(* The handlers of the charm and the methods of the manager.               *)
(***************************************************************************)
Install(fail) ==
    /\ driver = "charm"
    /\ Commit("on_install", on_install(Entry(fail)), FALSE, FALSE)
    /\ UNCHANGED deferred

Start(fail) ==
    /\ driver = "charm"
    /\ Commit("on_start", on_start(Entry(fail)), FALSE, FALSE)
    /\ UNCHANGED deferred

Stop(fail) ==
    /\ driver = "charm"
    /\ Commit("on_stop", on_stop(Entry(fail)), FALSE, FALSE)
    /\ UNCHANGED deferred

ConfigChanged(fail) ==
    /\ driver = "charm"
    /\ Commit("on_config_changed", on_config_changed(Entry(fail)), FALSE, FALSE)
    /\ UNCHANGED deferred

BackendsChanged(fail) ==
    /\ driver = "charm"
    /\ Commit("on_backends_changed", on_backends_changed(Entry(fail)),
              FALSE, FALSE)
    /\ UNCHANGED deferred

\* A keepalived_available event is delivered for the first time.  The
\* framework keeps a deferred event when the hook completes; a hook that
\* raises fails as a whole and is retried as a new delivery.
KeepalivedAvailable ==
    /\ driver = "charm"
    /\ started \/ Len(deferred) < MaxDeferred
    /\ LET w == on_keepalived_available(Entry(0))
       IN  /\ Commit("on_keepalived_available", w, FALSE, FALSE)
           /\ deferred' = IF w.defer /\ w.raised = NoError
                          THEN Append(deferred, Has(w.trace, ConfigureVrrp))
                          ELSE deferred

\* The framework re-emits the i-th deferred event.  Each deferred event
\* remembers whether an earlier delivery of it published VRRP parameters.
RedeliverKeepalivedAvailable(i) ==
    /\ driver = "charm"
    /\ i \in 1..Len(deferred)
    /\ LET w == on_keepalived_available(Entry(0))
       IN  /\ Commit("on_keepalived_available", w, TRUE, deferred[i])
           /\ deferred' =
                  IF w.defer \/ w.raised # NoError
                  THEN [deferred EXCEPT ![i] = @ \/ Has(w.trace, ConfigureVrrp)]
                  ELSE [j \in 1..(Len(deferred) - 1) |->
                            IF j < i THEN deferred[j] ELSE deferred[j + 1]]

ManagerInstall(fail) ==
    /\ driver = "manager"
    /\ Commit("install", install(Entry(fail)), FALSE, FALSE)
    /\ UNCHANGED deferred

ManagerStart(fail) ==
    /\ driver = "manager"
    /\ Commit("start", start(Entry(fail)), FALSE, FALSE)
    /\ UNCHANGED deferred

ManagerStop(fail) ==
    /\ driver = "manager"
    /\ Commit("stop", stop(Entry(fail)), FALSE, FALSE)
    /\ UNCHANGED deferred

ManagerUninstall(fail) ==
    /\ driver = "manager"
    /\ Commit("uninstall", uninstall(Entry(fail)), FALSE, FALSE)
    /\ UNCHANGED deferred

ManagerReconfigure(fail) ==
    /\ driver = "manager"
    /\ Commit("reconfigure", reconfigure(Entry(fail)), FALSE, FALSE)
    /\ UNCHANGED deferred

Next ==
    \/ PeerRelationChanges
    \/ \E v \in VirtualIps : VirtualIpChanges(v)
    \/ \E i \in InterfaceFeeds : InterfacesChange(i)
    \/ \E p \in PoolFeeds : PoolsChange(p)
    \/ \E fail \in FailPoints : Install(fail)
    \/ \E fail \in FailPoints : Start(fail)
    \/ \E fail \in FailPoints : Stop(fail)
    \/ \E fail \in FailPoints : ConfigChanged(fail)
    \/ \E fail \in FailPoints : BackendsChanged(fail)
    \/ KeepalivedAvailable
    \/ \E i \in 1..MaxDeferred : RedeliverKeepalivedAvailable(i)
    \/ \E fail \in FailPoints : ManagerInstall(fail)
    \/ \E fail \in FailPoints : ManagerStart(fail)
    \/ \E fail \in FailPoints : ManagerStop(fail)
    \/ \E fail \in FailPoints : ManagerUninstall(fail)
    \/ \E fail \in FailPoints : ManagerReconfigure(fail)

Spec == Init /\ [][Next]_vars


(***************************************************************************)
(* Properties.                                                             *)
(***************************************************************************)
\* the lifecycle flag of the class that drives the unit
Started == IF driver = "charm" THEN started ELSE is_started

StartOps == {"on_start", "start"}
LbReconfigureOps == {"on_config_changed", "on_backends_changed", "reconfigure"}

\* the most recent invocation entered reconfigure_keepalived
HaReconfigured ==
    \/ last.op = "on_keepalived_available"
    \/ last.op = "on_backends_changed" /\ ~last.failed
    \/ last.op = "on_config_changed"
          /\ (~last.failed \/ Count(last.trace, SystemctlRestart) = 2)

\* the text reconfigure_haproxy writes for the pools as they are
CharmConf == render("haproxy.conf.j2", [listen_proxies |-> pools])

\* C1: no handler publishes VRRP parameters (configure_vrrp_instances) while
\* the load-balancer has never completed a start (the started flag is false
\* and was never set before).
C1_NoPublicationBeforeFirstStart ==
    Has(last.trace, ConfigureVrrp) => ever_started

\* C2: a delivery of keepalived_available while the started flag is false
\* defers the event and publishes no VRRP parameters during that delivery.
C2_DeferredDeliveryPublishesNothing ==
    (last.op = "on_keepalived_available" /\ ~last.pre)
        => /\ Has(last.trace, Defer)
           /\ ~Has(last.trace, ConfigureVrrp)

\* the scripts of a published instance: one per distinct frontend port
OneScriptPerPort(instance) ==
    LET ports == {pools[i].listener.port : i \in 1..Len(pools)}
        scripts == instance.track_scripts
    IN  /\ Len(scripts) = Cardinality(ports)
        /\ \A port \in ports :
              Cardinality({i \in 1..Len(scripts) :
                  scripts[i].name = <<"haproxy_port_", port, "_check">>}) = 1

\* C3: a deferred keepalived_available event, redelivered once the unit is
\* started, with a peer joined and a virtual IP set, is published exactly
\* once in all (no earlier delivery of it published, this one publishes
\* once), and the published instance has one check script per distinct
\* frontend port.
C3_DeferredEventPublishedExactlyOnce ==
    (/\ last.op = "on_keepalived_available"
     /\ last.redelivered
     /\ last.pre
     /\ is_joined
     /\ virtual_ip # None)
        => /\ ~last.pub_before
           /\ Count(last.trace, ConfigureVrrp) = 1
           /\ Len(last.published) = 1
           /\ OneScriptPerPort(last.published[1])

\* C4: start is a no-op when already started: a start that completes leaves
\* the unit started, having called the service-start primitive once when it
\* began not started and never when it began started; and a start that
\* directly follows a completed start calls the primitive zero times, so
\* that two starts in succession call it once.
C4_StartTwiceStartsOnce ==
    [][last'.op \in StartOps =>
          /\ last'.raised = NoError =>
                /\ Started'
                /\ Count(last'.trace, SystemctlStart)
                       = IF last'.pre THEN 0 ELSE 1
          /\ (last.op \in StartOps /\ last.raised = NoError) =>
                /\ last'.pre
                /\ last'.raised = NoError
                /\ Count(last'.trace, SystemctlStart) = 0
                /\ Count(last.trace, SystemctlStart)
                       + Count(last'.trace, SystemctlStart)
                       = IF last.pre THEN 0 ELSE 1]_vars

\* C4 witness: a start was delivered to a unit already started, and left it
\* started without calling the primitive.
C4_Witness ==
    /\ last.op \in StartOps
    /\ last.pre
    /\ last.raised = NoError
    /\ Started
    /\ running
    /\ ~Has(last.trace, SystemctlStart)

\* C5: the manager's stop() calls the service-stop primitive if and only if
\* the state is STARTED, and (the primitive not failing) completes with the
\* state STOPPED.
C5_StopCallsPrimitiveIffStarted ==
    last.op = "stop"
        => /\ Has(last.trace, SystemctlStop) <=> last.pre
           /\ ~last.failed => (last.raised = NoError /\ ~is_started)

\* C6: a reconfiguration of the load-balancer that begins not STARTED writes
\* the configuration file and calls no service restart.
C6_NoRestartUnlessStarted ==
    (last.op \in LbReconfigureOps /\ ~last.pre)
        => /\ Has(last.trace, WriteConfFile)
           /\ ~Has(last.trace, SystemctlRestart)

\* C7: with a peer joined and no virtual IP set, reconfiguring the HA
\* companion sets a blocked status carrying a reason, publishes nothing and
\* returns without raising.
C7_MissingVirtualIpBlocks ==
    (HaReconfigured /\ is_joined /\ virtual_ip = None)
        => /\ status.name = "blocked"
           /\ status.message # ""
           /\ ~Has(last.trace, ConfigureVrrp)
           /\ last.raised \in {NoError, CalledProcessError}

\* C8: with no peer relation, reconfiguring the HA companion does nothing:
\* it publishes nothing, raises nothing, and leaves the unit status and the
\* lifecycle flags as they were.
C8_NoPeerNoOp ==
    [][(HaReconfigured' /\ ~is_joined') =>
          /\ ~Has(last'.trace, ConfigureVrrp)
          /\ ~Has(last'.trace, SetStatus)
          /\ last'.published = <<>>
          /\ last'.raised \in {NoError, CalledProcessError}
          /\ last'.raised = CalledProcessError => last'.failed
          /\ status' = status
          /\ started' = started
          /\ is_started' = is_started
          /\ ever_started' = ever_started]_vars

\* C8 witness: the HA companion was reconfigured with no peer relation, in
\* an environment where a joined peer would have been published to.
C8_Witness ==
    /\ HaReconfigured
    /\ ~is_joined
    /\ virtual_ip # None
    /\ interfaces # <<>>
    /\ last.op \in {"on_config_changed", "on_backends_changed"}

\* the first restart of the most recent invocation, the one that follows the
\* write of the configuration, succeeded
FirstRestartSucceeded == ~(last.failed /\ Len(last.trace) = 2)

\* C9: every config-changed and topology-changed notification writes the
\* configuration rendered from the current pools, whatever the HA path then
\* does (no peer, no virtual IP, no interface): the write is the handler's
\* first effect and precedes every effect of the HA reconfiguration, and on
\* a started unit the restart follows it at once, so that unless that
\* restart itself fails the service runs the new configuration even when
\* the HA path raises.
C9_LoadBalancerReconfiguredFirst ==
    last.op \in {"on_config_changed", "on_backends_changed"}
        => /\ conf = CharmConf
           /\ Len(last.trace) >= 1
           /\ last.trace[1] = WriteConfFile
           /\ Before(last.trace, WriteConfFile, ConfigureVrrp)
           /\ Before(last.trace, WriteConfFile, SetStatus)
           /\ last.pre =>
                 /\ Len(last.trace) >= 2
                 /\ last.trace[2] = SystemctlRestart
                 /\ FirstRestartSucceeded => (running /\ loaded = CharmConf)

\* C9 witness: the HA reconfiguration raised (no interface to resolve) after
\* the load-balancer had been reconfigured for a non-empty topology.
C9_Witness ==
    /\ last.op = "on_config_changed"
    /\ last.pre
    /\ last.raised = IndexError
    /\ pools # <<>>
    /\ conf = CharmConf
    /\ loaded = CharmConf

\* the commands of the process-control primitives
Primitives ==
    {AptUpdate, AptInstall, AptPurge, SystemctlStart, SystemctlStop,
     SystemctlRestart}

\* C10: a primitive that fails in a handler surfaces as the handler's
\* failure: the handler ends at the failed call (no retry, nothing after
\* it), the lifecycle flags are as they were, and so a start delivered after
\* a failed start calls the start primitive again.
C10_PrimitiveFailurePropagates ==
    [][/\ last'.failed =>
             /\ last'.raised = CalledProcessError
             /\ Len(last'.trace) >= 1
             /\ last'.trace[Len(last'.trace)] \in Primitives
             /\ started' = started
             /\ is_started' = is_started
             /\ ever_started' = ever_started
             /\ Started' = last'.pre
             /\ last'.op \in StartOps => ~Started'
       /\ (last.op \in StartOps /\ last.failed /\ last'.op \in StartOps)
             => Has(last'.trace, SystemctlStart)]_vars

\* C10 witness: a start whose service-start call failed left the unit not
\* started.
C10_Witness ==
    /\ last.op \in StartOps
    /\ last.failed
    /\ last.raised = CalledProcessError
    /\ last.trace = <<SystemctlStart>>
    /\ ~Started
    /\ ~running

InstallOps == {"on_install", "install"}

\* the environment wiring install writes: it points at the generated config
EnvText == render("haproxy.env.j2", [haproxy_app_config |-> haproxy_conf_file])

\* C11: install is idempotent: an install that completes leaves the
\* environment file pointing at the generated config path and the generated
\* config file empty, and leaves the started flags as they were; an install
\* that directly follows a completed install changes nothing at all.
C11_InstallIdempotent ==
    [][(last'.op \in InstallOps /\ ~last'.failed) =>
          /\ last'.raised = NoError
          /\ env_file' = EnvText
          /\ conf' = EmptyText
          /\ started' = started
          /\ is_started' = is_started
          /\ ever_started' = ever_started
          /\ (last.op \in InstallOps /\ ~last.failed) =>
                /\ env_file' = env_file
                /\ conf' = conf
                /\ running' = running
                /\ loaded' = loaded
                /\ status' = status
                /\ deferred' = deferred]_vars

\* C11 witness: an install completed on a unit whose running service had
\* loaded the empty config of an earlier install.
C11_Witness ==
    /\ last.op \in InstallOps
    /\ ~last.failed
    /\ Started
    /\ running
    /\ loaded = EmptyText
    /\ conf = EmptyText
    /\ env_file = EnvText

\* C12: when the charm's stop handler has completed, the unit status is a
\* blocked status.
C12_StopPublishesBlocked ==
    (last.op = "on_stop" /\ last.raised = NoError) => status.name = "blocked"

\* C13: with a peer joined and no network interface on the binding,
\* reconfiguring the HA companion sets a blocked status carrying a reason,
\* publishes nothing and returns without raising.
C13_NoInterfaceBlocks ==
    (HaReconfigured /\ is_joined /\ interfaces = <<>>)
        => /\ status.name = "blocked"
           /\ status.message # ""
           /\ ~Has(last.trace, ConfigureVrrp)
           /\ last.raised \in {NoError, CalledProcessError}

(***************************************************************************)
(* The pool adapter on its own: the manager is constructed over any feed   *)
(* of pools and any bind addresses, and reconfigured.                      *)
(***************************************************************************)
\* how many bind addresses the manager may be given
MaxAddresses == 2

Addresses == {"10.0.0.1", "10.0.0.2"}

\* the universe, and a pool whose algorithm the adapter's table does not know
AdapterPoolUniverse ==
    Append(PoolUniverse,
           [listener |-> [name |-> "odd", port |-> 9000,
                          balancing_algorithm |-> "URI_HASH"],
            members |-> <<Backend("odd0", 9001, Some(9002), Absent)>>])

\* the sequences over S of length at most n that repeat no element
SeqsNoRepeat(S, n) ==
    {s \in UNION {[1..k -> S] : k \in 0..n} :
        \A i, j \in 1..Len(s) : i # j => s[i] # s[j]}

\* the feeds of the adapter: up to MaxPools pools of the universe, any order
AdapterPoolFeeds ==
    {[i \in 1..Len(ix) |-> AdapterPoolUniverse[ix[i]]] :
        ix \in SeqsNoRepeat(1..Len(AdapterPoolUniverse), MaxPools)}

AddressFeeds ==
    {NoBindAddresses} \cup
    {BindAddresses(s) : s \in UNION {[1..k -> Addresses] : k \in 0..MaxAddresses}}

InitAdapter ==
    /\ driver = "manager"
    /\ started = FALSE
    /\ is_started = FALSE
    /\ status = NoStatus
    /\ conf = NoFile
    /\ env_file = NoFile
    /\ running = FALSE
    /\ loaded = NoFile
    /\ deferred = <<>>
    /\ is_joined = FALSE
    /\ virtual_ip = None
    /\ interfaces = <<"eth0">>
    /\ pools \in AdapterPoolFeeds
    /\ bind_addresses \in AddressFeeds
    /\ ever_started = FALSE
    /\ last = NoInvocation

NextAdapter == \E fail \in FailPoints : ManagerReconfigure(fail)

SpecAdapter == InitAdapter /\ [][NextAdapter]_vars

\* the most recent reconfigure wrote the configuration file
Written == last.op = "reconfigure" /\ Has(last.trace, WriteConfFile)

\* str() of the bind spec of an address and a port
BindStr(address, port) == <<address, ":", port>>

\* C14: for a non-empty list of bind addresses every listen section has one
\* bind spec per address, (address, listener port), in the order of the
\* addresses; with no list given (None) it has exactly one bind spec, the
\* empty address with the listener's port.
C14_BindExpansion ==
    Written =>
        LET sections == conf.ctxt.listen_sections
            addresses == bind_addresses.addresses
        IN  /\ Len(sections) = Len(pools)
            /\ \A i \in 1..Len(pools) :
                  LET specs == sections[i].socket_specs_str
                      port == pools[i].listener.port
                  IN  /\ bind_addresses.is_none =>
                            specs = <<BindStr("", port)>>
                      /\ (~bind_addresses.is_none /\ addresses # <<>>) =>
                            /\ Len(specs) = Len(addresses)
                            /\ \A j \in 1..Len(addresses) :
                                  specs[j] = BindStr(addresses[j], port)

\* C14 witness: two pools were rendered for two different bind addresses.
C14_Witness ==
    /\ Written
    /\ Len(pools) = 2
    /\ bind_addresses = BindAddresses(<<"10.0.0.1", "10.0.0.2">>)

\* C15: an empty list of bind addresses is treated like an absent one:
\* every listen section has exactly one bind spec, the empty address with
\* the listener's port.
C15_EmptyListLikeAbsent ==
    (Written /\ ~bind_addresses.is_none /\ bind_addresses.addresses = <<>>) =>
        \A i \in 1..Len(pools) :
            conf.ctxt.listen_sections[i].socket_specs_str
                = <<BindStr("", pools[i].listener.port)>>

\* the balance keyword haproxy knows for an algorithm
HaproxyBalance(algorithm) ==
    CASE algorithm = "ROUND_ROBIN" -> "roundrobin"
      [] algorithm = "LEAST_CONNECTIONS" -> "leastconn"
      [] algorithm = "SOURCE_IP" -> "source"

\* the names the specification gives the same three
SpecBalance(algorithm) ==
    CASE algorithm = "ROUND_ROBIN" -> "round-robin"
      [] algorithm = "LEAST_CONNECTIONS" -> "least-connections"
      [] algorithm = "SOURCE_IP" -> "source-affinity"

KnownAlgorithms == {"ROUND_ROBIN", "LEAST_CONNECTIONS", "SOURCE_IP"}

SomePoolUnknown ==
    \E i \in 1..Len(pools) :
        pools[i].listener.balancing_algorithm \notin KnownAlgorithms

\* a pool with an algorithm outside the table makes reconfigure fail fast:
\* KeyError, and nothing written
FailsFastOnUnknown ==
    (last.op = "reconfigure" /\ SomePoolUnknown)
        => /\ last.raised = KeyError
           /\ last.trace = <<>>
           /\ conf = NoFile

\* C16 as amended: the balance field of every section is the haproxy keyword
\* of the pool's algorithm (ROUND_ROBIN -> roundrobin, LEAST_CONNECTIONS ->
\* leastconn, SOURCE_IP -> source), and an algorithm outside the table fails
\* fast and produces no section.
C16_BalanceKeywords ==
    /\ FailsFastOnUnknown
    /\ Written =>
          /\ ~SomePoolUnknown
          /\ \A i \in 1..Len(pools) :
                conf.ctxt.listen_sections[i].balance
                    = HaproxyBalance(pools[i].listener.balancing_algorithm)

\* C16: the balance field of every section is round-robin, least-connections
\* or source-affinity according to the pool's algorithm, and an algorithm
\* outside the table fails fast and produces no section.
C16_SpecBalanceNames ==
    /\ FailsFastOnUnknown
    /\ Written =>
          /\ ~SomePoolUnknown
          /\ \A i \in 1..Len(pools) :
                conf.ctxt.listen_sections[i].balance
                    = SpecBalance(pools[i].listener.balancing_algorithm)

\* C16 witness: a least-connections pool and a source-ip pool were rendered.
C16_Witness ==
    /\ Written
    /\ \E i \in 1..Len(pools) :
          pools[i].listener.balancing_algorithm = "LEAST_CONNECTIONS"
    /\ \E i \in 1..Len(pools) :
          pools[i].listener.balancing_algorithm = "SOURCE_IP"

\* C17: every section has one server per backend of its pool, in input
\* order, whose check_port is the backend's monitor_port when it has one and
\* its port when it has none.
C17_CheckPortDefault ==
    Written =>
        \A i \in 1..Len(pools) :
            LET servers == conf.ctxt.listen_sections[i].servers
                members == pools[i].members
            IN  /\ Len(servers) = Len(members)
                /\ \A j \in 1..Len(members) :
                      /\ servers[j].name = members[j].name
                      /\ servers[j].port = members[j].port
                      /\ servers[j].check_port =
                            IF members[j].monitor_port = Absent
                            THEN members[j].port
                            ELSE members[j].monitor_port[1]

\* C17 witness: a pool was rendered whose two backends are one without and
\* one with a monitor port that differs from its port.
C17_Witness ==
    /\ Written
    /\ \E i \in 1..Len(pools) :
          /\ Len(pools[i].members) = 2
          /\ pools[i].members[1].monitor_port = Absent
          /\ pools[i].members[2].monitor_port # Absent
          /\ conf.ctxt.listen_sections[i].servers[2].check_port
                 # pools[i].members[2].port

(***************************************************************************)
(* Redelivery.                                                             *)
(***************************************************************************)
\* C18: redelivery is safe: a handler that completes directly after a
\* completed invocation of the same handler, the environment unchanged,
\* leaves the lifecycle flags, the files, the status and the service as the
\* first left them; and the listen sections reconfigure writes are one per
\* pool, in the order of the pools.
C18_RedeliverySafe ==
    [][/\ (/\ last'.op # "none"
           /\ last'.op = last.op
           /\ last.raised = NoError
           /\ last'.raised = NoError) =>
             /\ started' = started
             /\ is_started' = is_started
             /\ conf' = conf
             /\ env_file' = env_file
             /\ status' = status
             /\ running' = running
             /\ loaded' = loaded
       /\ (last'.op = "reconfigure" /\ Has(last'.trace, WriteConfFile)) =>
             /\ Len(conf'.ctxt.listen_sections) = Len(pools')
             /\ \A i \in 1..Len(pools') :
                   conf'.ctxt.listen_sections[i].name
                       = pools'[i].listener.name]_vars

\* C18 witness: a stop was delivered to a unit that an earlier stop had
\* already stopped.
C18_Witness ==
    /\ last.op = "on_stop"
    /\ last.raised = NoError
    /\ ~last.pre
    /\ ever_started
    /\ ~started
    /\ ~running

(***************************************************************************)
(* The unit when every primitive succeeds.  A service command succeeds     *)
(* only once the package is installed.                                     *)
(***************************************************************************)
Installed == env_file # NoFile

NextNoFail ==
    \/ PeerRelationChanges
    \/ \E v \in VirtualIps : VirtualIpChanges(v)
    \/ \E i \in InterfaceFeeds : InterfacesChange(i)
    \/ \E p \in PoolFeeds : PoolsChange(p)
    \/ Install(0)
    \/ Installed /\ Start(0)
    \/ Installed /\ Stop(0)
    \/ Installed /\ ConfigChanged(0)
    \/ Installed /\ BackendsChanged(0)
    \/ ManagerInstall(0)
    \/ Installed /\ ManagerStart(0)
    \/ Installed /\ ManagerStop(0)
    \/ Installed /\ ManagerReconfigure(0)

SpecNoFail == Init /\ [][NextNoFail]_vars

\* C19: between handler invocations the started flag agrees with the
\* service: it runs if and only if the flag is set.
C19_FlagAgreesWithProcess == Started <=> running

\* C20: between handler invocations a running service has loaded the
\* configuration file as it is now.
C20_LoadedIsCurrent == running => loaded = conf

=============================================================================
